---- MODULE Spec2Model ----
(***************************************************************************)
(* Model of the gru-wgpu application host: the presentation-surface        *)
(* manager (graphics.rs), the input queue (input.rs) and the lifecycle     *)
(* handler that bootstraps the context and dispatches events (lib.rs).     *)
(*                                                                         *)
(* Rust Option<T> values are modelled as sequences of length <= 1:         *)
(* <<>> is None and <<v>> is Some(v).                                      *)
(***************************************************************************)
EXTENDS Integers, Sequences, FiniteSets, TLC

VARIABLES
    gfx,        \* a stand-alone Graphics value driven directly (component runs)
    calls,      \* arguments of the configure calls made on gfx, in order
    op          \* the last operation applied to gfx: its inputs, pre-state and result

gvars == <<gfx, calls, op>>

VARIABLES
    target,       \* build target: "native" (pollster::block_on) or "wasm32" (spawn_local)
    gru_ui,       \* whether the crate is built with feature "gru-ui"
    handler,      \* AppHandler: [ctx : Option<Context>, app : AppState]
    window,       \* the winit Window shared through Arc<Window>
    boot,         \* position of the bootstrap future created by new_events
    proxy_queue,  \* user events sent through EventLoopProxy, not yet dispatched
    loop,         \* the event loop: "running", "exiting" (exit() called), "exited"
    crash,        \* "none", or the panic that ended the run
    hist,         \* history: callbacks invoked, events queued and events seen by frames
    last,         \* the last handler run: its event and what it did, in order
    injected      \* init-complete events sent by something else than new_events

lvars == <<target, gru_ui, handler, window, boot, proxy_queue, loop, crash, hist, last,
           injected>>

VARIABLES
    inp,        \* a stand-alone Input value driven directly (component runs)
    cursor,     \* the system cursor of the window handed to mouse_cam_mode
    iop         \* the last operation applied to inp, and what capture recorded

ivars == <<inp, cursor, iop>>

VARIABLES
    fsel,       \* surface format selection of Graphics::init and the configuration built from it
    loader,     \* a Loader, its worker thread and the Files it has handed out
    store,      \* a Storage, what it persists to, and the last call made on it
    rdata       \* a RenderData: its buffers' sizes and the lengths it recorded

cvars == <<fsel, loader, store, rdata>>

vars == <<gvars, lvars, ivars, cvars>>

(***************************************************************************)
(* Bounds of the model.                                                    *)
(***************************************************************************)
MaxCalls == 4
MaxReconfigs == 5
MaxEvents == 2
MaxResizes == 2
MaxInjected == 1
MaxQueue == 1
MaxFormats == 3
MaxPolls == 3
MaxElements == 4

None == <<>>
Some(v) == <<v>>

(***************************************************************************)
(* graphics.rs                                                             *)
(***************************************************************************)

\* wgpu::SurfaceError, the failures of Surface::get_current_texture
SurfaceErrors == {"Timeout", "Outdated", "Lost", "OutOfMemory", "Other"}
\* what the underlying acquisition can produce
AcquireOutcomes == {"Texture"} \cup SurfaceErrors

\* Graphics as left by Graphics::init: surface_size = None, the underlying
\* surface never configured.  reconfigs counts calls of Surface::configure and
\* applied holds the (width, height) of the last SurfaceConfiguration given to it.
Graphics_init == [surface_size |-> None, reconfigs |-> 0, applied |-> None]

\* Surface::configure(&device, &surface_conf) on the underlying surface
surface_configure(g, width, height) ==
    [g EXCEPT !.reconfigs = @ + 1, !.applied = Some(<<width, height>>)]

\* a configure that forgets to compare with the applied size
configure_always(g, width, height) ==
    IF width > 0 /\ height > 0
    THEN surface_configure([g EXCEPT !.surface_size = Some(<<width, height>>)], width, height)
    ELSE g

\* a configure that lets a size through when only one dimension is positive
configure_either(g, width, height) ==
    IF (width > 0 \/ height > 0) /\ Some(<<width, height>>) # g.surface_size
    THEN surface_configure([g EXCEPT !.surface_size = Some(<<width, height>>)], width, height)
    ELSE g

\* a configure that checks the width only
configure_width_only(g, width, height) ==
    IF width > 0 /\ Some(<<width, height>>) # g.surface_size
    THEN surface_configure([g EXCEPT !.surface_size = Some(<<width, height>>)], width, height)
    ELSE g

\* Graphics::configure
configure(g, width, height) ==
    IF width > 0 /\ height > 0 /\ Some(<<width, height>>) # g.surface_size
    THEN surface_configure([g EXCEPT !.surface_size = Some(<<width, height>>)], width, height)
    ELSE g

OkNone == [kind |-> "OkNone", err |-> "-"]
OkSome == [kind |-> "OkSome", err |-> "-"]
Err(e) == [kind |-> "Err", err |-> e]

\* a current_surface that treats every acquisition failure as transient
current_surface_swallow(g, outcome) ==
    IF g.surface_size = None
    THEN [g |-> g, ret |-> OkNone, acquired |-> FALSE]
    ELSE IF outcome = "Texture"
         THEN [g |-> g, ret |-> OkSome, acquired |-> TRUE]
         ELSE [g |-> configure(g, g.surface_size[1][1], g.surface_size[1][2]),
               ret |-> OkNone, acquired |-> TRUE]

\* a current_surface that attempts acquisition without looking at surface_size
current_surface_unchecked(g, outcome) ==
    IF outcome = "Texture"
    THEN [g |-> g, ret |-> OkSome, acquired |-> TRUE]
    ELSE IF outcome \in {"Lost", "Outdated"}
         THEN [g |-> g, ret |-> OkNone, acquired |-> TRUE]
         ELSE [g |-> g, ret |-> Err(outcome), acquired |-> TRUE]

\* Graphics::current_surface; outcome is what Surface::get_current_texture
\* yields if it is called.  Returns the new Graphics, the returned value and
\* whether acquisition was attempted.
current_surface(g, outcome) ==
    IF g.surface_size = None
    THEN [g |-> g, ret |-> OkNone, acquired |-> FALSE]
    ELSE IF outcome = "Texture"
         THEN [g |-> g, ret |-> OkSome, acquired |-> TRUE]
         ELSE IF outcome \in {"Lost", "Outdated"}
              THEN [g |-> configure(g, g.surface_size[1][1], g.surface_size[1][2]),
                    ret |-> OkNone, acquired |-> TRUE]
              ELSE [g |-> g, ret |-> Err(outcome), acquired |-> TRUE]

(***************************************************************************)
(* input.rs                                                                *)
(***************************************************************************)
Positions == {<<1, 1>>}
Deltas == {<<1, 0>>}
Zero == <<0, 0>>

\* RawEvent::Window(..) / RawEvent::Device(..) values the platform delivers
CursorMoved(p) == [src |-> "Window", kind |-> "CursorMoved", arg |-> p]
CloseRequested == [src |-> "Window", kind |-> "CloseRequested", arg |-> Zero]
Focused == [src |-> "Window", kind |-> "Focused", arg |-> Zero]
MouseMotion(d) == [src |-> "Device", kind |-> "MouseMotion", arg |-> d]
CursorLeft == [src |-> "Window", kind |-> "CursorLeft", arg |-> Zero]
MouseInput(state, button) ==
    [src |-> "Window", kind |-> "MouseInput", arg |-> Zero, state |-> state,
     button |-> button]
MouseWheel(unit, d) == [src |-> "Window", kind |-> "MouseWheel", arg |-> d, unit |-> unit]

\* KeyEvent { physical_key, state, text } inside WindowEvent::KeyboardInput;
\* a text is the sequence of its code points
Code(keycode) == <<"Code", keycode>>
Unidentified == <<"Unidentified", "native">>
KeyboardInput(physical_key, state, text) ==
    [src |-> "Window", kind |-> "KeyboardInput", arg |-> Zero,
     physical_key |-> physical_key, state |-> state, text |-> text]

WindowInputs == {CursorMoved(p) : p \in Positions} \cup {Focused}
DeviceInputs == {MouseMotion(d) : d \in Deltas}

\* HardwareEvent values of gru_ui
PointerMoved(pos, delta) == [kind |-> "PointerMoved", pos |-> pos, delta |-> delta]
RawMouseDelta(delta) == [kind |-> "RawMouseDelta", pos |-> Zero, delta |-> delta]
CloseWindow == [kind |-> "CloseWindow", pos |-> Zero, delta |-> Zero]
PointerClicked(pos, button, pressed) ==
    [kind |-> "PointerClicked", pos |-> pos, button |-> button, pressed |-> pressed]
PointerGone == [kind |-> "PointerGone", pos |-> Zero]
Scroll(pos, delta) == [kind |-> "Scroll", pos |-> pos, delta |-> delta]
Key(key, pressed) == [kind |-> "Key", key |-> key, pressed |-> pressed]
Char(ch) == [kind |-> "Char", ch |-> ch]

\* Input::new
Input_new == [cam_mode |-> FALSE, pointer_pos |-> Zero, events |-> <<>>]

\* convert: the match on KeyCode, as a table from KeyCode to Key
KeyTable ==
    "Digit1" :> "Key1" @@ "Digit3" :> "Key3" @@ "Digit2" :> "Key2" @@
    "Digit4" :> "Key4" @@ "Digit5" :> "Key5" @@ "Digit6" :> "Key6" @@
    "Digit7" :> "Key7" @@ "Digit8" :> "Key8" @@ "Digit9" :> "Key9" @@
    "Digit0" :> "Key0" @@ "KeyA" :> "A" @@ "KeyB" :> "B" @@ "KeyC" :> "C" @@
    "KeyD" :> "D" @@ "KeyE" :> "E" @@ "KeyF" :> "F" @@ "KeyG" :> "G" @@
    "KeyH" :> "H" @@ "KeyI" :> "I" @@ "KeyJ" :> "J" @@ "KeyK" :> "K" @@
    "KeyL" :> "L" @@ "KeyM" :> "M" @@ "KeyN" :> "N" @@ "KeyO" :> "O" @@
    "KeyP" :> "P" @@ "KeyQ" :> "Q" @@ "KeyR" :> "R" @@ "KeyS" :> "S" @@
    "KeyT" :> "T" @@ "KeyU" :> "U" @@ "KeyV" :> "V" @@ "KeyW" :> "W" @@
    "KeyX" :> "X" @@ "KeyY" :> "Y" @@ "KeyZ" :> "Z" @@ "Escape" :> "Escape" @@
    "F1" :> "F1" @@ "F2" :> "F2" @@ "F3" :> "F3" @@ "F4" :> "F4" @@ "F5" :> "F5" @@
    "F6" :> "F6" @@ "F7" :> "F7" @@ "F8" :> "F8" @@ "F9" :> "F9" @@ "F10" :> "F10" @@
    "F11" :> "F11" @@ "F12" :> "F12" @@ "F13" :> "F13" @@ "F14" :> "F14" @@
    "F15" :> "F15" @@ "F16" :> "F16" @@ "F17" :> "F17" @@ "F18" :> "F18" @@
    "F19" :> "F19" @@ "F20" :> "F20" @@ "F21" :> "F21" @@ "F22" :> "F22" @@
    "F23" :> "F23" @@ "F24" :> "F24" @@ "Pause" :> "Pause" @@ "Insert" :> "Insert" @@
    "Home" :> "Home" @@ "Delete" :> "Delete" @@ "End" :> "End" @@
    "PageDown" :> "PageDown" @@ "PageUp" :> "PageUp" @@ "ArrowLeft" :> "Left" @@
    "ArrowUp" :> "Up" @@ "ArrowRight" :> "Right" @@ "ArrowDown" :> "Down" @@
    "Backspace" :> "Back" @@ "Enter" :> "Return" @@ "Space" :> "Space" @@
    "NumLock" :> "Numlock" @@ "Numpad0" :> "Numpad0" @@ "Numpad1" :> "Numpad1" @@
    "Numpad2" :> "Numpad2" @@ "Numpad3" :> "Numpad3" @@ "Numpad4" :> "Numpad4" @@
    "Numpad5" :> "Numpad5" @@ "Numpad6" :> "Numpad6" @@ "Numpad7" :> "Numpad7" @@
    "Numpad8" :> "Numpad8" @@ "Numpad9" :> "Numpad9" @@ "NumpadAdd" :> "NumpadAdd" @@
    "NumpadDivide" :> "NumpadDivide" @@ "NumpadDecimal" :> "NumpadDecimal" @@
    "NumpadComma" :> "NumpadComma" @@ "NumpadEnter" :> "NumpadEnter" @@
    "NumpadEqual" :> "NumpadEquals" @@ "NumpadMultiply" :> "NumpadMultiply" @@
    "NumpadSubtract" :> "NumpadSubtract" @@ "AltLeft" :> "LAlt" @@
    "ControlLeft" :> "LControl" @@ "ShiftLeft" :> "LShift" @@ "AltRight" :> "RAlt" @@
    "ControlRight" :> "RControl" @@ "ShiftRight" :> "RShift" @@ "Tab" :> "Tab"

\* a lookup that finds a key for every code
key_of_every_code(keycode) == Some(keycode)

\* convert: the result of the match on KeyCode (None for the arm _)
key_of(keycode) ==
    IF keycode \in DOMAIN KeyTable THEN Some(KeyTable[keycode]) ELSE None

\* convert: the match on MouseButton
button_of(button) ==
    CASE button = "Left" -> "Primary"
      [] button = "Right" -> "Secondary"
      [] button = "Middle" -> "Terciary"
      [] OTHER -> "Terciary"

\* a device arm that reports relative motion whatever the capture flag
convert_device_unguarded(cam_mode, raw) ==
    IF raw.kind = "MouseMotion" THEN <<RawMouseDelta(raw.arg)>> ELSE <<>>

\* convert, arm RawEvent::Device: the accepted events
convert_device(cam_mode, raw) ==
    IF raw.kind = "MouseMotion" /\ cam_mode THEN <<RawMouseDelta(raw.arg)>> ELSE <<>>

\* convert, arm WindowEvent::KeyboardInput: the accepted events
convert_keyboard(raw) ==
    IF raw.physical_key[1] = "Code"
    THEN LET key == key_of(raw.physical_key[2])
         IN (IF key # None THEN <<Key(key[1], raw.state = "Pressed")>> ELSE <<>>)
            \o (IF raw.text # None THEN <<Char(Head(raw.text[1]))>> ELSE <<>>)
    ELSE <<>>

\* convert (feature gru-ui): the new pointer position and the accepted events
convert(cam_mode, pointer_pos, raw) ==
    IF raw.src = "Device"
    THEN [pointer_pos |-> pointer_pos, out |-> convert_device(cam_mode, raw)]
    ELSE IF raw.kind = "CloseRequested"
         THEN [pointer_pos |-> pointer_pos, out |-> <<CloseWindow>>]
         ELSE IF raw.kind = "CursorMoved" /\ ~cam_mode
              THEN [pointer_pos |-> raw.arg,
                    out |-> <<PointerMoved(raw.arg,
                                           <<raw.arg[1] - pointer_pos[1],
                                             raw.arg[2] - pointer_pos[2]>>)>>]
         ELSE IF raw.kind = "MouseInput"
              THEN [pointer_pos |-> pointer_pos,
                    out |-> <<PointerClicked(pointer_pos, button_of(raw.button),
                                             raw.state = "Pressed")>>]
         ELSE IF raw.kind = "CursorLeft"
              THEN [pointer_pos |-> pointer_pos, out |-> <<PointerGone>>]
         ELSE IF raw.kind = "MouseWheel" /\ raw.unit = "LineDelta"
              THEN [pointer_pos |-> pointer_pos, out |-> <<Scroll(pointer_pos, raw.arg)>>]
         ELSE IF raw.kind = "KeyboardInput"
              THEN [pointer_pos |-> pointer_pos, out |-> convert_keyboard(raw)]
              ELSE [pointer_pos |-> pointer_pos, out |-> <<>>]

\* an Input::event that follows the cursor during capture as well
Input_event_tracks_in_capture(input, raw, ui) ==
    LET pos == IF raw.src = "Window" /\ raw.kind = "CursorMoved"
               THEN raw.arg ELSE input.pointer_pos
    IN IF ui
       THEN [input EXCEPT !.pointer_pos = pos,
                          !.events = @ \o convert(input.cam_mode, input.pointer_pos, raw).out]
       ELSE [input EXCEPT !.pointer_pos = pos, !.events = Append(@, raw)]

\* Input::event, in both builds
Input_event(input, raw, ui) ==
    IF ui
    THEN LET c == convert(input.cam_mode, input.pointer_pos, raw)
         IN [input EXCEPT !.pointer_pos = c.pointer_pos, !.events = @ \o c.out]
    ELSE [input EXCEPT
            !.pointer_pos = IF raw.src = "Window" /\ raw.kind = "CursorMoved"
                               /\ ~input.cam_mode
                            THEN raw.arg ELSE @,
            !.events = Append(@, raw)]

\* an Input::clear that leaves the queue as it is
Input_clear_forgotten(input) == input

\* Input::clear
Input_clear(input) == [input EXCEPT !.events = <<>>]

\* Input::events
Input_events(input) == input.events

\* Input::mouse_cam_mode (its effect on the Input value)
Input_mouse_cam_mode(input, enable) == [input EXCEPT !.cam_mode = enable]

\* the cursor of a freshly created window: visible and free
Cursor_default == [visible |-> TRUE, grab |-> "None", set_position |-> None]

\* outcomes of Window::set_cursor_grab and Window::set_cursor_position
PlatformOutcomes == [grab : {"Ok", "NotSupported"}, position : {"Ok", "NotSupported"}]

\* a mouse_cam_mode that puts the cursor back at the origin
mouse_cam_mode_origin(input, cur, enable, platform) ==
    IF platform.grab # "Ok"
    THEN [input |-> input, cursor |-> cur, crash |-> "CursorGrabFailed"]
    ELSE [input |-> Input_mouse_cam_mode(input, enable),
          cursor |-> IF enable
                     THEN [cur EXCEPT !.visible = FALSE, !.grab = "Confined"]
                     ELSE [cur EXCEPT !.visible = TRUE, !.grab = "None",
                                      !.set_position = Some(Zero)],
          crash |-> "none"]

\* Input::mouse_cam_mode with the window calls it makes; a failed call panics
mouse_cam_mode(input, cur, enable, platform) ==
    IF enable
    THEN LET c1 == [cur EXCEPT !.visible = FALSE]
         IN IF platform.grab # "Ok"
            THEN [input |-> input, cursor |-> c1, crash |-> "CursorGrabFailed"]
            ELSE [input |-> Input_mouse_cam_mode(input, TRUE),
                  cursor |-> [c1 EXCEPT !.grab = "Confined"], crash |-> "none"]
    ELSE IF platform.grab # "Ok"
         THEN [input |-> input, cursor |-> cur, crash |-> "CursorGrabFailed"]
         ELSE LET c2 == [cur EXCEPT !.grab = "None", !.visible = TRUE]
              IN IF platform.position # "Ok"
                 THEN [input |-> input, cursor |-> c2, crash |-> "CursorPositionFailed"]
                 ELSE [input |-> Input_mouse_cam_mode(input, FALSE),
                       cursor |-> [c2 EXCEPT !.set_position = Some(input.pointer_pos)],
                       crash |-> "none"]

(***************************************************************************)
(* lib.rs                                                                  *)
(***************************************************************************)
Payloads == {"init_a", "init_b"}

\* AppState
AppState_Init(init) == [tag |-> "Init", val |-> init]
AppState_App(instance) == [tag |-> "App", val |-> Some(instance)]
AppState_Deinit == [tag |-> "Deinit", val |-> None]

\* AppHandler::new
AppHandler_new(init) == [ctx |-> None, app |-> AppState_Init(Some(init))]

NoWindow == [created |-> FALSE, visible |-> FALSE, size |-> Zero, redraw |-> FALSE]

\* inner sizes a new window can have, and sizes Resized events can carry
InnerSizes == {<<0, 0>>, <<2, 3>>}
ResizedSizes == {<<0, 3>>, <<2, 3>>}

\* a create_window that leaves out with_visible(false)
create_window_visible(tgt, size) ==
    [created |-> TRUE, visible |-> TRUE, size |-> size, redraw |-> TRUE]

\* create_window: hidden on native, the page's canvas on wasm32
create_window(tgt, size) ==
    [created |-> TRUE, visible |-> tgt = "wasm32", size |-> size, redraw |-> tgt = "wasm32"]

\* Window::set_visible(true); showing the window makes the platform ask for a redraw
set_visible(w) == [w EXCEPT !.visible = TRUE, !.redraw = TRUE]

\* Window::request_redraw
request_redraw(w) == [w EXCEPT !.redraw = TRUE]

Max(a, b) == IF a >= b THEN a ELSE b

\* what a handler works on: the handler and everything it can reach, with the
\* record of what this handler run has done so far
World == [handler |-> handler, window |-> window, boot |-> boot,
          proxy_queue |-> proxy_queue, loop |-> loop, crash |-> crash, hist |-> hist,
          effects |-> <<>>]

Did(W, what) == [W EXCEPT !.effects = Append(@, what)]
Panic(W, why) == [W EXCEPT !.crash = why]

\* a Context::init that never configures the surface
Context_init_tail_unconfigured(W) ==
    LET c == [input |-> Input_new, graphics |-> Graphics_init]
    IN [ctx |-> c,
        W |-> Did([W EXCEPT !.window = set_visible(@), !.hist.shown = @ + 1], "set_visible")]

\* Context::init after Graphics::init has returned: configure with the window's
\* inner size, Input::new, show the window
Context_init_tail(W) ==
    LET c == [input |-> Input_new,
              graphics |-> configure(Graphics_init, W.window.size[1], W.window.size[2])]
    IN [ctx |-> c,
        W |-> Did(Did([W EXCEPT !.window = set_visible(@), !.hist.shown = @ + 1],
                      "configure"), "set_visible")]

\* a completion that installs the context in the handler instead of sending it
send_event_installs(W, c) ==
    Did([W EXCEPT !.handler.ctx = Some(c), !.boot = "sent"], "send_event")

\* proxy.send_event(ctx) at the end of the bootstrap future
send_event(W, c) ==
    Did([W EXCEPT !.proxy_queue = Append(@, c), !.boot = "sent"], "send_event")

\* the bootstrap future up to the adapter: create_surface and request_adapter
\* inside Graphics::init, whose error Context::init unwraps
AdapterOutcomes == {"Ok", "CreateSurfaceFailed", "AdapterNotFound"}
future_adapter(W, o) ==
    IF o = "Ok" THEN [W EXCEPT !.boot = "device"]
    ELSE Panic([W EXCEPT !.boot = "failed"], o)

DeviceOutcomes == {"Ok", "DeviceCreationFailed"}

\* a bootstrap that shows the window before the device has been obtained
future_device_shows_first(W, o) ==
    LET W1 == Did([W EXCEPT !.window = set_visible(@), !.hist.shown = @ + 1], "set_visible")
    IN IF o = "Ok"
       THEN LET c == [input |-> Input_new,
                      graphics |-> configure(Graphics_init, W.window.size[1],
                                             W.window.size[2])]
            IN send_event(Did(W1, "configure"), c)
       ELSE Panic([W1 EXCEPT !.boot = "failed"], o)

\* the bootstrap future from request_device to its end
future_device(W, o) ==
    IF o = "Ok"
    THEN LET t == Context_init_tail(W) IN send_event(t.W, t.ctx)
    ELSE Panic([W EXCEPT !.boot = "failed"], o)

\* AppHandler::new_events; gpu holds the outcomes of the fallible platform calls
StartCauses == {"Init", "Poll"}
new_events(W, tgt, cause, size, gpu) ==
    IF cause # "Init" THEN W
    ELSE IF gpu.window # "Ok" THEN Panic([W EXCEPT !.boot = "failed"], "WindowCreationFailed")
    ELSE LET W1 == Did([W EXCEPT !.window = create_window(tgt, size), !.boot = "adapter"],
                       "create_window")
         IN IF tgt = "wasm32" THEN W1
            ELSE LET W2 == future_adapter(W1, gpu.adapter)
                 IN IF W2.crash # "none" THEN W2 ELSE future_device(W2, gpu.device)

\* App::init of the embedding application: builds the instance from the payload
\* and may use the context (here: switch capture mode on)
InitChoices == [cam : {"keep", "on"}]
App_init(init, c, choice) ==
    [app |-> [built_from |-> init],
     ctx |-> IF choice.cam = "on"
             THEN [c EXCEPT !.input = Input_mouse_cam_mode(@, TRUE)] ELSE c]

\* a user_event that installs whatever arrives, whatever the state
user_event_overwrites(W, msg, choice) ==
    LET init == IF W.handler.app.tag = "Init" /\ W.handler.app.val # None
                THEN W.handler.app.val[1] ELSE "none"
        r == App_init(init, msg, choice)
    IN Did([W EXCEPT !.handler.app = AppState_App(r.app),
                     !.handler.ctx = Some(r.ctx),
                     !.hist.init_args = Append(@, init)], "init")

\* a user_event that runs App::init and installs the context but leaves
\* self.app at Init, with the payload taken out
user_event_stays_init(W, msg, choice) ==
    IF W.handler.app.tag # "Init" THEN Panic(W, "unreachable")
    ELSE IF W.handler.app.val = None THEN Panic(W, "unwrap_none")
    ELSE LET init == W.handler.app.val[1]
             r == App_init(init, msg, choice)
         IN Did([W EXCEPT !.handler.app = AppState_Init(None),
                          !.handler.ctx = Some(r.ctx),
                          !.hist.init_args = Append(@, init)], "init")

\* AppHandler::user_event
user_event(W, msg, choice) ==
    IF W.handler.app.tag # "Init" THEN Panic(W, "unreachable")
    ELSE IF W.handler.app.val = None THEN Panic(W, "unwrap_none")
    ELSE LET init == W.handler.app.val[1]
             r == App_init(init, msg, choice)
         IN Did([W EXCEPT !.handler.app = AppState_App(r.app),
                          !.handler.ctx = Some(r.ctx),
                          !.hist.init_args = Append(@, init)], "init")

\* a device_event that reaches into the context still waiting in the proxy's queue
device_event_reaches_pending(W, ui, raw) ==
    IF W.handler.ctx = None
    THEN IF W.proxy_queue = <<>> THEN W
         ELSE LET c == W.proxy_queue[1]
                  i == Input_event(c.input, raw, ui)
                  pushed == SubSeq(i.events, Len(c.input.events) + 1, Len(i.events))
              IN Did([W EXCEPT !.proxy_queue[1].input = i,
                               !.hist.all_queued = @ \o pushed], "input_event")
    ELSE LET c == W.handler.ctx[1]
             i == Input_event(c.input, raw, ui)
             pushed == SubSeq(i.events, Len(c.input.events) + 1, Len(i.events))
         IN Did([W EXCEPT !.handler.ctx = Some([c EXCEPT !.input = i]),
                          !.hist.all_queued = @ \o pushed], "input_event")

\* AppHandler::device_event
device_event(W, ui, raw) ==
    IF W.handler.ctx = None THEN W
    ELSE LET c == W.handler.ctx[1]
             i == Input_event(c.input, raw, ui)
             pushed == SubSeq(i.events, Len(c.input.events) + 1, Len(i.events))
         IN Did([W EXCEPT !.handler.ctx = Some([c EXCEPT !.input = i]),
                          !.hist.all_queued = @ \o pushed], "input_event")

\* App::frame of the embedding application: it reads the queued events, may
\* acquire a frame and switch capture mode, and says whether to exit
FrameChoices == [acquire : {"skip", "Lost", "Timeout"},
                 cam : {"keep", "on", "off"},
                 exit : BOOLEAN]
App_frame(c, choice) ==
    LET g == IF choice.acquire = "skip" THEN c.graphics
             ELSE current_surface(c.graphics, choice.acquire).g
        i == IF choice.cam = "keep" THEN c.input
             ELSE Input_mouse_cam_mode(c.input, choice.cam = "on")
    IN [ctx |-> [c EXCEPT !.graphics = g, !.input = i],
        seen |-> Input_events(c.input),
        exit |-> choice.exit]

\* a RedrawRequested arm that clears the queue before the frame callback runs
redraw_requested_clear_first(W, choice) ==
    IF W.handler.app.tag # "App" THEN Panic(W, "unreachable")
    ELSE LET W0 == Did([W EXCEPT !.handler.ctx[1].input = Input_clear(@)], "clear")
             f == App_frame(W0.handler.ctx[1], choice)
             W1 == Did([W0 EXCEPT !.handler.ctx = Some(f.ctx),
                                  !.hist.delivered = @ \o f.seen,
                                  !.hist.frames = TRUE,
                                  !.loop = IF f.exit /\ @ = "running" THEN "exiting" ELSE @],
                       "frame")
         IN Did([W1 EXCEPT !.window = request_redraw(@)], "request_redraw")


\* a RedrawRequested arm that samples a clock before it calls App::frame
redraw_requested_samples_clock(W, choice) ==
    IF W.handler.app.tag # "App" THEN Panic(W, "unreachable")
    ELSE LET W0 == Did(W, "now")
             f == App_frame(W.handler.ctx[1], choice)
             W1 == Did([W0 EXCEPT !.handler.ctx = Some(f.ctx),
                                  !.hist.delivered = @ \o f.seen,
                                  !.hist.frames = TRUE,
                                  !.loop = IF f.exit /\ @ = "running" THEN "exiting" ELSE @],
                       "frame")
             W2 == Did([W1 EXCEPT !.handler.ctx[1].input = Input_clear(@)], "clear")
         IN Did([W2 EXCEPT !.window = request_redraw(@)], "request_redraw")

\* the RedrawRequested arm of window_event
redraw_requested(W, choice) ==
    IF W.handler.app.tag # "App" THEN Panic(W, "unreachable")
    ELSE LET f == App_frame(W.handler.ctx[1], choice)
             W1 == Did([W EXCEPT !.handler.ctx = Some(f.ctx),
                                 !.hist.delivered = @ \o f.seen,
                                 !.hist.frames = TRUE,
                                 !.loop = IF f.exit /\ @ = "running" THEN "exiting" ELSE @],
                       "frame")
             W2 == Did([W1 EXCEPT !.handler.ctx[1].input = Input_clear(@)], "clear")
         IN Did([W2 EXCEPT !.window = request_redraw(@)], "request_redraw")

\* a window_event whose Resized arm forwards the size without clamping it
window_event_unclamped(W, ui, event, choice) ==
    IF W.handler.ctx = None THEN W
    ELSE IF event.kind = "Resized"
         THEN Did([W EXCEPT !.handler.ctx[1].graphics =
                        configure(@, event.arg[1], event.arg[2])],
                  "configure")
    ELSE IF event.kind = "RedrawRequested"
         THEN redraw_requested(W, choice)
    ELSE LET c == W.handler.ctx[1]
             i == Input_event(c.input, event, ui)
             pushed == SubSeq(i.events, Len(c.input.events) + 1, Len(i.events))
         IN Did([W EXCEPT !.handler.ctx = Some([c EXCEPT !.input = i]),
                          !.hist.all_queued = @ \o pushed], "input_event")

\* AppHandler::window_event; event is "Resized", "RedrawRequested" or a raw input
window_event(W, ui, event, choice) ==
    IF W.handler.ctx = None THEN W
    ELSE IF event.kind = "Resized"
         THEN Did([W EXCEPT !.handler.ctx[1].graphics =
                        configure(@, Max(event.arg[1], 1), Max(event.arg[2], 1))],
                  "configure")
    ELSE IF event.kind = "RedrawRequested"
         THEN redraw_requested(W, choice)
    ELSE LET c == W.handler.ctx[1]
             i == Input_event(c.input, event, ui)
             pushed == SubSeq(i.events, Len(c.input.events) + 1, Len(i.events))
         IN Did([W EXCEPT !.handler.ctx = Some([c EXCEPT !.input = i]),
                          !.hist.all_queued = @ \o pushed], "input_event")

\* an exiting that calls App::deinit but leaves the context installed
exiting_keeps_ctx(W) ==
    IF W.handler.ctx = None THEN Panic([W EXCEPT !.loop = "exited"], "unwrap_none")
    ELSE LET W1 == [W EXCEPT !.handler.app = AppState_Deinit, !.loop = "exited"]
         IN IF W.handler.app.tag # "App" THEN Panic(W1, "unreachable")
            ELSE Did([W1 EXCEPT !.hist.deinit_calls = @ + 1], "deinit")

\* an exiting that drops the application instance without calling App::deinit
exiting_skips_deinit(W) ==
    IF W.handler.ctx = None THEN Panic([W EXCEPT !.loop = "exited"], "unwrap_none")
    ELSE LET W1 == [W EXCEPT !.handler.ctx = None, !.handler.app = AppState_Deinit,
                             !.loop = "exited"]
         IN IF W.handler.app.tag # "App" THEN Panic(W1, "unreachable")
            ELSE Did(W1, "drop_ctx")

\* AppHandler::exiting
exiting(W) ==
    IF W.handler.ctx = None THEN Panic([W EXCEPT !.loop = "exited"], "unwrap_none")
    ELSE LET W1 == [W EXCEPT !.handler.ctx = None, !.handler.app = AppState_Deinit,
                             !.loop = "exited"]
         IN IF W.handler.app.tag # "App" THEN Panic(W1, "unreachable")
            ELSE Did(Did([W1 EXCEPT !.hist.deinit_calls = @ + 1], "deinit"), "drop_ctx")

(***************************************************************************)
(* The run: run() builds the handler and the platform's event loop calls    *)
(* its handlers, one at a time, on the dispatch thread.                     *)
(***************************************************************************)
NoHandler == [event |-> "none", handled |-> FALSE, effects |-> <<>>]

Queue == IF handler.ctx = None THEN <<>> ELSE Input_events(handler.ctx[1].input)

LInit ==
    /\ target \in {"native", "wasm32"}
    /\ gru_ui \in BOOLEAN
    /\ \E init \in Payloads : handler = AppHandler_new(init)
    /\ window = NoWindow
    /\ boot = "idle"
    /\ proxy_queue = <<>>
    /\ loop = "running"
    /\ crash = "none"
    /\ hist = [init_args |-> <<>>, deinit_calls |-> 0, all_queued |-> <<>>,
               delivered |-> <<>>, frames |-> FALSE, shown |-> 0]
    /\ last = NoHandler
    /\ injected = 0

GIdle ==
    /\ gfx = Graphics_init
    /\ calls = <<>>
    /\ op = [name |-> "none", pre |-> Graphics_init, outcome |-> "-",
             ret |-> OkNone, acquired |-> FALSE]

NoRaw == [src |-> "none", kind |-> "none", arg |-> Zero]
IIdle ==
    /\ inp = Input_new
    /\ cursor = Cursor_default
    /\ iop = [name |-> "none", raw |-> NoRaw, enable |-> FALSE, pre |-> Input_new,
              at_enable |-> None, moved |-> FALSE]

\* the components that are driven on their own, before anything was done to them
FIdle ==
    fsel = [pc |-> "idle", formats |-> <<>>, surface_format |-> "-", view_format |-> "-",
            config |-> None, crash |-> "none"]

NoFile ==
    [state |-> "none", path |-> "-", chan |-> None, sender |-> "none", ready_state |-> 0,
     status |-> 0, flag |-> FALSE, polls |-> <<>>]
FileIds == {1, 2}
LIdle ==
    loader = [queue |-> <<>>, worker |-> [state |-> "idle", cur |-> 0, data |-> None],
              files |-> [f \in FileIds |-> NoFile], crash |-> "none"]

EmptyMap == [k \in {} |-> <<>>]
SIdle ==
    store = [pc |-> "unloaded", data |-> EmptyMap, disk |-> None, local_storage |-> <<>>,
             expect |-> EmptyMap, op |-> [name |-> "none", key |-> <<>>, ret |-> None],
             crash |-> "none"]

SizeOfVertex == 36
SizeOfU16 == 2
RIdle ==
    rdata = [vertex_buf_size |-> SizeOfVertex, index_buf_size |-> SizeOfU16,
             len_vertices |-> 0, len_indices |-> 0, num_indices |-> 0,
             op |-> "new", bound |-> None, crash |-> "none"]

CIdle == FIdle /\ LIdle /\ SIdle /\ RIdle

Init == LInit /\ GIdle /\ IIdle /\ CIdle

\* the state a handler run leaves behind
Apply(R, event) ==
    /\ handler' = R.handler
    /\ window' = R.window
    /\ boot' = R.boot
    /\ proxy_queue' = R.proxy_queue
    /\ loop' = R.loop
    /\ crash' = R.crash
    /\ hist' = R.hist
    /\ last' = [event |-> event, handled |-> handler.ctx # None, effects |-> R.effects]
    /\ UNCHANGED <<target, gru_ui, injected, gvars, ivars, cvars>>

Dispatching == crash = "none" /\ loop # "exited"
Room == Len(hist.all_queued) < MaxEvents
ReconfigRoom ==
    IF handler.ctx = None THEN TRUE ELSE handler.ctx[1].graphics.reconfigs < MaxResizes

GpuOutcomes == [window : {"Ok", "Err"}, adapter : AdapterOutcomes, device : DeviceOutcomes]

\* StartCause::Init is the loop's first callback and occurs once
NewEvents ==
    /\ Dispatching
    /\ IF boot = "idle"
       THEN \E size \in InnerSizes, gpu \in GpuOutcomes :
               Apply(new_events(World, target, "Init", size, gpu), "new_events")
       ELSE Apply(new_events(World, target, "Poll", window.size,
                             CHOOSE gpu \in GpuOutcomes : TRUE), "new_events")

\* wasm32: the spawned future resumes between handler runs
FutureAdapter ==
    /\ Dispatching /\ target = "wasm32" /\ boot = "adapter"
    /\ \E o \in AdapterOutcomes : Apply(future_adapter(World, o), "future")

FutureDevice ==
    /\ Dispatching /\ target = "wasm32" /\ boot = "device"
    /\ \E o \in DeviceOutcomes : Apply(future_device(World, o), "future")

UserEvent ==
    /\ Dispatching /\ proxy_queue # <<>>
    /\ \E choice \in InitChoices :
         Apply(user_event([World EXCEPT !.proxy_queue = Tail(@)], Head(proxy_queue), choice),
               "user_event")

DeviceEvent ==
    /\ Dispatching /\ boot # "idle" /\ Room
    /\ \E raw \in DeviceInputs : Apply(device_event(World, gru_ui, raw), "device_event")

WindowInput ==
    /\ Dispatching /\ window.created /\ Room
    /\ \E raw \in WindowInputs :
         Apply(window_event(World, gru_ui, raw, CHOOSE c \in FrameChoices : TRUE),
               "window_input")

\* the platform resizes the window, asks for a redraw and reports Resized
Resized ==
    /\ Dispatching /\ window.created /\ ReconfigRoom
    /\ \E size \in ResizedSizes :
         Apply(window_event([World EXCEPT !.window.size = size, !.window.redraw = TRUE],
                            gru_ui, [kind |-> "Resized", arg |-> size],
                            CHOOSE c \in FrameChoices : TRUE),
               "resized")

\* a requested redraw is delivered
RedrawRequested ==
    /\ Dispatching /\ window.created /\ window.redraw
    /\ \E choice \in FrameChoices :
         Apply(window_event([World EXCEPT !.window.redraw = FALSE], gru_ui,
                            [kind |-> "RedrawRequested", arg |-> Zero], choice),
               "redraw")

\* the loop stops after event_loop.exit()
Exiting ==
    /\ Dispatching /\ loop = "exiting"
    /\ Apply(exiting(World), "exiting")

Next ==
    \/ NewEvents
    \/ FutureAdapter
    \/ FutureDevice
    \/ UserEvent
    \/ DeviceEvent
    \/ WindowInput
    \/ Resized
    \/ RedrawRequested
    \/ Exiting

Spec == Init /\ [][Next]_vars

(***************************************************************************)
(* The handler under an event source that breaks the one-shot contract: a   *)
(* further init-complete event is sent after the first has been handled,    *)
(* and is dispatched whatever the loop's state.                             *)
(***************************************************************************)
InjectInitComplete ==
    /\ crash = "none" /\ hist.init_args # <<>> /\ injected < MaxInjected
    /\ proxy_queue = <<>>
    /\ proxy_queue' = Append(proxy_queue, [input |-> Input_new, graphics |-> Graphics_init])
    /\ injected' = injected + 1
    /\ UNCHANGED <<target, gru_ui, handler, window, boot, loop, crash, hist, last, gvars,
                   ivars, cvars>>

LateUserEvent ==
    /\ crash = "none" /\ loop = "exited" /\ proxy_queue # <<>>
    /\ \E choice \in InitChoices :
         Apply(user_event([World EXCEPT !.proxy_queue = Tail(@)], Head(proxy_queue), choice),
               "user_event")

NextInjected == Next \/ InjectInitComplete \/ LateUserEvent

InitInjected == Init /\ gru_ui = FALSE

SpecInjected == InitInjected /\ [][NextInjected]_vars

(***************************************************************************)
(* Properties of the lifecycle and of the input queue                       *)
(***************************************************************************)
IsPrefix(a, b) == Len(a) <= Len(b) /\ SubSeq(b, 1, Len(a)) = a
InitHandled == hist.init_args # <<>>

\* C1: in the native and in the wasm32 bootstrap alike, before the
\* init-complete event has been handled no frame callback has run, no input
\* event has been queued and no context is installed.
C1_NothingBeforeInitComplete ==
    ~InitHandled
        => /\ ~hist.frames
           /\ hist.all_queued = <<>>
           /\ hist.delivered = <<>>
           /\ handler.ctx = None
           /\ ~("frame" \in {last.effects[i] : i \in 1..Len(last.effects)})

C1_EventDiscardedBeforeInit ==
    /\ ~InitHandled
    /\ proxy_queue # <<>>
    /\ last.event \in {"redraw", "window_input", "device_event"}

\* a step that dispatches an init-complete event to the handler
IsUserEventStep == proxy_queue # <<>> /\ proxy_queue' = Tail(proxy_queue)

\* C2: an init-complete event dispatched when the state is no longer Init
\* ends the run with a panic; it replaces neither the application instance
\* nor the installed context, and App::init is never invoked a second time.
C2_SecondInitCompleteRejected ==
    /\ [](Len(hist.init_args) <= 1)
    /\ [][(IsUserEventStep /\ handler.app.tag # "Init")
            => /\ crash' = "unreachable"
               /\ handler' = handler
               /\ hist' = hist]_vars

C2_Rejected ==
    /\ crash = "unreachable"
    /\ last.event = "user_event"
    /\ handler.app.tag = "App"
    /\ handler.ctx # None
    /\ injected = 1

\* C3: the lifecycle state is one of Init(payload), App(instance), Deinit; it
\* moves only Init -> App -> Deinit; the payload is taken out once, at
\* Init -> App, where it is the argument of App::init.
C3_StateShape ==
    /\ handler.app.tag \in {"Init", "App", "Deinit"}
    /\ handler.app.tag = "Init"
         => handler.app.val \in {Some(p) : p \in Payloads} /\ hist.init_args = <<>>
    /\ handler.app.tag = "App"
         => /\ Len(hist.init_args) = 1
            /\ handler.app.val = Some([built_from |-> hist.init_args[1]])
    /\ handler.app.tag = "Deinit" => handler.app.val = None /\ Len(hist.init_args) = 1

C3_Lifecycle ==
    /\ []C3_StateShape
    /\ [][/\ handler'.app.tag # handler.app.tag
             => \/ handler.app.tag = "Init" /\ handler'.app.tag = "App"
                \/ handler.app.tag = "App" /\ handler'.app.tag = "Deinit"
          /\ hist'.init_args # hist.init_args
             => /\ handler.app.tag = "Init" /\ handler'.app.tag = "App"
                /\ hist'.init_args = <<handler.app.val[1]>>]_vars

C3_ShutDown ==
    handler.app.tag = "Deinit" /\ hist.deinit_calls = 1 /\ Len(hist.init_args) = 1

\* C9: a handled redraw runs the frame callback, then clears the queue, then
\* requests the next redraw, once each; the callback sees the queue as it was
\* when the redraw arrived, and no other event shortens the queue.
C9_RedrawOrder ==
    /\ []((last.event = "redraw" /\ last.handled)
            => /\ last.effects = <<"frame", "clear", "request_redraw">>
               /\ handler.ctx # None
               /\ Queue = <<>>
               /\ window.redraw)
    /\ [][/\ (last'.event = "redraw" /\ last'.handled)
             => hist'.delivered = hist.delivered \o Queue
          /\ (last'.event # "redraw" /\ handler.ctx # None /\ handler'.ctx # None)
             => IsPrefix(Queue, Queue')]_vars

C9_FrameSawEvents ==
    /\ last.event = "redraw" /\ last.handled
    /\ Len(hist.delivered) >= 2
    /\ Queue = <<>>

\* C10: what the frame callbacks have seen so far, followed by what is queued
\* now, is exactly what has been queued since the context was installed, in
\* arrival order: nothing is lost, reordered or seen by two frame callbacks.
C10_NoCrossFrameLeakage ==
    /\ IsPrefix(hist.delivered, hist.all_queued)
    /\ handler.ctx # None => hist.delivered \o Queue = hist.all_queued

C10_QueuedAfterAFrame ==
    /\ handler.ctx # None
    /\ hist.delivered # <<>>
    /\ Queue # <<>>
    /\ last.event \in {"window_input", "device_event"}

Clamped(size) == <<Max(size[1], 1), Max(size[2], 1)>>

\* C11: a Resized(w, h) handled while Running leaves the surface configured
\* with (max(w, 1), max(h, 1)), zero dimensions included.
C11_ResizeAppliesClampedSize ==
    (last.event = "resized" /\ last.handled)
        => /\ last.effects = <<"configure">>
           /\ handler.ctx # None
           /\ handler.app.tag = "App"
           /\ handler.ctx[1].graphics.surface_size = Some(Clamped(window.size))
           /\ handler.ctx[1].graphics.applied = Some(Clamped(window.size))

C11_ZeroWidthResized ==
    /\ last.event = "resized" /\ last.handled
    /\ window.size = <<0, 3>>
    /\ handler.ctx[1].graphics.reconfigs = 2

\* C12: exit is requested only by a frame callback, so teardown starts in App
\* with the context present; it moves the state to Deinit, calls App::deinit
\* once while the context is still alive and drops the context afterwards.
C12_Teardown ==
    /\ [](/\ loop # "running" => hist.frames /\ InitHandled
          /\ hist.deinit_calls <= 1
          /\ last.event = "exiting"
               => /\ last.handled
                  /\ last.effects = <<"deinit", "drop_ctx">>
                  /\ crash = "none"
                  /\ loop = "exited"
                  /\ handler = [ctx |-> None, app |-> AppState_Deinit]
                  /\ hist.deinit_calls = 1
          /\ hist.deinit_calls = 1 => loop = "exited")
    /\ [][/\ (loop = "running" /\ loop' # "running")
             => last'.event = "redraw" /\ last'.handled /\ loop' = "exiting"
          /\ loop' = "exited"
             => loop = "exiting" /\ handler.app.tag = "App" /\ handler.ctx # None]_vars

C12_TornDown ==
    last.event = "exiting" /\ hist.deinit_calls = 1 /\ hist.all_queued # <<>>

\* a step that sends an init-complete event through the proxy
IsSendStep == Len(proxy_queue') > Len(proxy_queue)

\* C13: the context is installed once, by the init-complete event, after the
\* bootstrap has succeeded and configure has been applied with the window's
\* size; it is absent before, stays until teardown and is always complete.
C13_ContextInstalledOnce ==
    /\ [](/\ handler.ctx # None
               => /\ InitHandled /\ boot = "sent" /\ handler.app.tag = "App"
                  /\ hist.shown = 1
                  /\ DOMAIN handler.ctx[1] = {"input", "graphics"}
          /\ (handler.ctx = None /\ InitHandled) => loop = "exited"
          /\ Len(proxy_queue) <= 1)
    /\ [][/\ IsSendStep
             => /\ proxy_queue = <<>> /\ boot # "sent" /\ boot' = "sent"
                /\ proxy_queue'[1] =
                     [input |-> Input_new,
                      graphics |-> configure(Graphics_init, window'.size[1],
                                             window'.size[2])]
          /\ (handler.ctx = None /\ handler'.ctx # None)
             => /\ IsUserEventStep /\ ~InitHandled
                /\ handler'.ctx[1].graphics = proxy_queue[1].graphics
          /\ (handler.ctx # None /\ handler'.ctx = None) => last'.event = "exiting"]_vars

C13_ConfiguredContextInstalled ==
    /\ last.event = "user_event"
    /\ handler.ctx # None
    /\ handler.ctx[1].graphics = configure(Graphics_init, 2, 3)
    /\ window.size = <<0, 3>>

GpuFailures == {"CreateSurfaceFailed", "AdapterNotFound", "DeviceCreationFailed"}

\* C19: when the GPU bootstrap fails the run ends with that error: the
\* bootstrap is not retried, no init-complete event is sent, App::init and
\* App::frame are never called and set_visible(true) is never called.
C19_BootstrapFailureIsFatal ==
    /\ [](crash \in GpuFailures
            => /\ boot = "failed"
               /\ proxy_queue = <<>>
               /\ handler.ctx = None
               /\ handler.app.tag = "Init"
               /\ ~InitHandled /\ ~hist.frames
               /\ hist.shown = 0
               /\ target = "native" => ~window.visible)
    /\ [][crash # "none" => UNCHANGED vars]_vars

C19_DeviceRejected ==
    crash = "DeviceCreationFailed" /\ window.created /\ window.size = <<2, 3>>

\* C20 as stated: the window is created hidden, becomes visible only after
\* the bootstrap has succeeded and the surface is configured, before the
\* init-complete event is sent, exactly once.
C20_CreatedHiddenShownOnce ==
    /\ (window.created /\ hist.shown = 0) => ~window.visible
    /\ hist.shown <= 1
    /\ hist.shown = 1 => boot = "sent"

\* C20 (amended): on native the window is created hidden (on wasm32 it is
\* the page's canvas, created with the default attributes); on both targets
\* set_visible(true) is called once, after the bootstrap has succeeded and
\* configure has been applied, and before the init-complete event is sent.
C20_ShownOnceAfterBootstrap ==
    /\ [](/\ (target = "native" /\ window.created /\ hist.shown = 0) => ~window.visible
          /\ hist.shown <= 1
          /\ hist.shown = 1 => boot = "sent" /\ window.visible /\ crash \notin GpuFailures
          /\ boot = "sent" => hist.shown = 1)
    /\ [][/\ hist'.shown # hist.shown => IsSendStep
          /\ IsSendStep
             => /\ hist.shown = 0 /\ hist'.shown = 1
                /\ Len(last'.effects) >= 3
                /\ SubSeq(last'.effects, Len(last'.effects) - 2, Len(last'.effects))
                     = <<"configure", "set_visible", "send_event">>]_vars

C20_ShownAndSent ==
    /\ target = "native" /\ hist.shown = 1 /\ window.visible
    /\ proxy_queue # <<>>
    /\ last.event = "new_events"

(***************************************************************************)
(* Component runs of Graphics: a freshly initialised manager receives       *)
(* configure and current_surface calls with arbitrary arguments.            *)
(***************************************************************************)
ResizeWidths == {0, 800}
ResizeHeights == {0, 300, 600}

GInit ==
    /\ GIdle
    /\ LInit
    /\ IIdle
    /\ CIdle
    /\ target = "native"
    /\ gru_ui = FALSE
    /\ handler = AppHandler_new("init_a")

GConfigure ==
    \E w \in ResizeWidths, h \in ResizeHeights :
        /\ Len(calls) < MaxCalls
        /\ gfx.reconfigs < MaxReconfigs
        /\ gfx' = configure(gfx, w, h)
        /\ calls' = Append(calls, <<w, h>>)
        /\ op' = [name |-> "configure", pre |-> gfx, outcome |-> "-",
                  ret |-> OkNone, acquired |-> FALSE]
        /\ UNCHANGED <<lvars, ivars, cvars>>

GCurrentSurface ==
    \E outcome \in AcquireOutcomes :
        /\ gfx.reconfigs < MaxReconfigs
        /\ LET r == current_surface(gfx, outcome)
           IN /\ gfx' = r.g
              /\ op' = [name |-> "current_surface", pre |-> gfx, outcome |-> outcome,
                        ret |-> r.ret, acquired |-> r.acquired]
        /\ UNCHANGED <<calls, lvars, ivars, cvars>>

GNext == GConfigure \/ GCurrentSurface

SpecGraphics == GInit /\ [][GNext]_vars

(***************************************************************************)
(* Properties of the presentation-surface manager (checked on SpecGraphics) *)
(***************************************************************************)
Positive(size) == size[1] > 0 /\ size[2] > 0
Transient == {"Lost", "Outdated"}
LastCall == calls[Len(calls)]

\* C4: when acquisition on a configured surface fails with Lost or Outdated,
\* current_surface performs an underlying reconfiguration with the last
\* applied size and returns Ok(None).
C4_TransientFailureReconfigures ==
    (op.name = "current_surface" /\ op.pre.surface_size # None /\ op.outcome \in Transient)
        => /\ op.ret = OkNone
           /\ gfx.reconfigs = op.pre.reconfigs + 1
           /\ gfx.applied = op.pre.surface_size

\* what the code does in that case: Ok(None) is returned, acquisition was
\* attempted, and the manager (reconfiguration count included) is untouched
C4_TransientFailureSkipsFrameOnly ==
    (op.name = "current_surface" /\ op.pre.surface_size # None /\ op.outcome \in Transient)
        => op.ret = OkNone /\ op.acquired /\ gfx = op.pre

C4_Case ==
    op.name = "current_surface" /\ op.pre.surface_size # None /\ op.outcome = "Lost"

ResizeSeq == << <<0, 0>>, <<800, 600>>, <<800, 600>>, <<0, 300>> >>

C5_Prefix ==
    /\ (calls = SubSeq(ResizeSeq, 1, 1) => gfx.reconfigs = 0 /\ gfx.surface_size = None)
    /\ (calls = SubSeq(ResizeSeq, 1, 2)
            => gfx.reconfigs = 1 /\ gfx.surface_size = Some(<<800, 600>>))
    /\ (calls = SubSeq(ResizeSeq, 1, 3)
            => gfx.reconfigs = 1 /\ gfx.surface_size = Some(<<800, 600>>))

\* C5 as stated: over the resize sequence (0,0), (800,600), (800,600), (0,300)
\* on a fresh manager the first (800,600) reconfigures once, the duplicate
\* does nothing, and after (0,300) the manager is unconfigured again.
C5_ResizeSequenceReturnsToUnconfigured ==
    C5_Prefix /\ (calls = ResizeSeq => gfx.surface_size = None)

\* C5 (amended): over the resize sequence (0,0), (800,600), (800,600), (0,300)
\* on a fresh manager the first (800,600) reconfigures once, the duplicate
\* does nothing, and the final (0,300) is a no-op too: the applied size stays
\* (800,600) and exactly one reconfiguration has been performed.
C5_ResizeSequenceKeepsLastSize ==
    C5_Prefix /\ (calls = ResizeSeq
                    => /\ gfx.surface_size = Some(<<800, 600>>)
                       /\ gfx.applied = Some(<<800, 600>>)
                       /\ gfx.reconfigs = 1)

C5_SequenceApplied == calls = ResizeSeq /\ op.name = "configure"

\* C6: for positive w and h the second of two consecutive configure(w, h)
\* calls changes neither the applied size nor the reconfiguration count.
C6_RepeatedConfigureIsNoOp ==
    (/\ op.name = "configure"
     /\ Len(calls) >= 2
     /\ LastCall = calls[Len(calls) - 1]
     /\ Positive(LastCall))
        => /\ gfx.surface_size = op.pre.surface_size
           /\ gfx.surface_size = Some(LastCall)
           /\ gfx.reconfigs = op.pre.reconfigs
           /\ gfx.applied = op.pre.applied

C6_RepeatedConfigure ==
    /\ op.name = "configure"
    /\ Len(calls) >= 2
    /\ LastCall = calls[Len(calls) - 1]
    /\ Positive(LastCall)
    /\ gfx.reconfigs >= 1

AllZeroDimension == \A i \in 1..Len(calls) : ~Positive(calls[i])

\* C7: from the unconfigured state, configure calls that all have a zero
\* dimension leave the manager unconfigured with no reconfiguration, and
\* current_surface then returns Ok(None) without attempting acquisition.
C7_ZeroDimensionStaysUnconfigured ==
    AllZeroDimension
        => /\ gfx.surface_size = None
           /\ gfx.reconfigs = 0
           /\ gfx.applied = None
           /\ (op.name = "current_surface" => op.ret = OkNone /\ ~op.acquired)

C7_ZeroCallsThenAcquire ==
    /\ Len(calls) >= 2
    /\ AllZeroDimension
    /\ \E i \in 1..Len(calls) : calls[i][1] > 0 \/ calls[i][2] > 0
    /\ op.name = "current_surface"
    /\ op.outcome = "OutOfMemory"

\* C8: current_surface returns an error exactly when the manager is
\* configured and acquisition fails with something other than Lost or
\* Outdated; the error is the acquisition's, and the manager is unchanged.
C8_ErrorExactlyOnOtherFailure ==
    op.name = "current_surface"
        => /\ (op.ret.kind = "Err"
                 <=> (op.pre.surface_size # None /\ op.outcome \in SurfaceErrors \ Transient))
           /\ (op.ret.kind = "Err" => op.ret = Err(op.outcome) /\ gfx = op.pre)

C8_ErrorReturned ==
    op.name = "current_surface" /\ op.ret.kind = "Err" /\ op.pre.reconfigs >= 1

(***************************************************************************)
(* Component runs of Input: event, clear and mouse_cam_mode in any order,   *)
(* in both builds, on a window whose cursor calls can be refused.          *)
(***************************************************************************)
CursorPositions == {<<1, 1>>, <<2, 1>>}
KeyCodes == {"KeyA", "Comma"}
Texts == {<<"^", "a">>}

KeyboardInputs ==
    {KeyboardInput(k, st, t) :
        k \in {Code(c) : c \in KeyCodes} \cup {Unidentified},
        st \in {"Pressed", "Released"},
        t \in {None} \cup {Some(x) : x \in Texts}}

RawInputs ==
    {CursorMoved(p) : p \in CursorPositions}
        \cup {MouseMotion(d) : d \in Deltas}
        \cup {CloseRequested, CursorLeft, MouseInput("Pressed", "Left"),
              MouseWheel("LineDelta", <<0, 1>>)}
        \cup KeyboardInputs

IInit ==
    /\ IIdle
    /\ GIdle
    /\ CIdle
    /\ LInit
    /\ target = "native"
    /\ handler = AppHandler_new("init_a")

IOthers ==
    <<target, gru_ui, handler, window, boot, proxy_queue, loop, hist, last, injected,
      gvars, cvars>>

IEvent ==
    \E raw \in RawInputs :
        /\ crash = "none"
        /\ Len(inp.events) < MaxQueue
        /\ inp' = Input_event(inp, raw, gru_ui)
        /\ iop' = [iop EXCEPT !.name = "event", !.raw = raw, !.pre = inp,
                              !.moved = IF inp.cam_mode /\ raw.kind = "CursorMoved"
                                           /\ Some(raw.arg) # iop.at_enable
                                        THEN TRUE ELSE @]
        /\ UNCHANGED <<cursor, crash, IOthers>>

IClear ==
    /\ crash = "none"
    /\ inp.events # <<>>
    /\ inp' = Input_clear(inp)
    /\ iop' = [iop EXCEPT !.name = "clear", !.raw = NoRaw, !.pre = inp]
    /\ UNCHANGED <<cursor, crash, IOthers>>

IMouseCamMode ==
    \E enable \in BOOLEAN, platform \in PlatformOutcomes :
        /\ crash = "none"
        /\ LET r == mouse_cam_mode(inp, cursor, enable, platform)
           IN /\ inp' = r.input
              /\ cursor' = r.cursor
              /\ crash' = r.crash
              /\ iop' = [name |-> "mouse_cam_mode", raw |-> NoRaw, enable |-> enable,
                         pre |-> inp,
                         at_enable |-> IF enable /\ r.crash = "none"
                                       THEN Some(inp.pointer_pos) ELSE iop.at_enable,
                         moved |-> IF enable /\ r.crash = "none" THEN FALSE ELSE iop.moved]
        /\ UNCHANGED IOthers

INext == IEvent \/ IClear \/ IMouseCamMode

SpecInput == IInit /\ [][INext]_vars

(***************************************************************************)
(* Properties of Input.                                                    *)
(***************************************************************************)
\* the events the last Input::event call pushed
Pushed == SubSeq(inp.events, Len(iop.pre.events) + 1, Len(inp.events))
Minus(a, b) == <<a[1] - b[1], a[2] - b[2]>>

\* C14: with feature gru-ui, during capture a device-motion event yields
\* exactly one relative-delta event and a cursor-moved event yields no event;
\* outside capture a cursor-moved event yields exactly one pointer-moved
\* event (new position, delta from the previous position) and a device-motion
\* event yields none. In both builds a cursor-moved event received during
\* capture leaves the pointer position as it was.
C14_CaptureRouting ==
    iop.name = "event"
    => /\ IsPrefix(iop.pre.events, inp.events)
       /\ inp.cam_mode = iop.pre.cam_mode
       /\ (iop.pre.cam_mode /\ iop.raw.kind = "CursorMoved")
            => inp.pointer_pos = iop.pre.pointer_pos
       /\ gru_ui
            => /\ (iop.pre.cam_mode /\ iop.raw.kind = "MouseMotion")
                    => Pushed = <<RawMouseDelta(iop.raw.arg)>>
               /\ (iop.pre.cam_mode /\ iop.raw.kind = "CursorMoved") => Pushed = <<>>
               /\ (~iop.pre.cam_mode /\ iop.raw.kind = "CursorMoved")
                    => /\ Pushed = <<PointerMoved(iop.raw.arg,
                                                  Minus(iop.raw.arg, iop.pre.pointer_pos))>>
                       /\ inp.pointer_pos = iop.raw.arg
               /\ (~iop.pre.cam_mode /\ iop.raw.kind = "MouseMotion") => Pushed = <<>>

C14_MotionDuringCapture ==
    /\ gru_ui /\ iop.name = "event" /\ iop.pre.cam_mode
    /\ iop.raw.kind = "MouseMotion"
    /\ iop.pre.pointer_pos = <<2, 1>>
    /\ inp.events = <<RawMouseDelta(<<1, 0>>)>>

\* C15: the pointer position is frozen during capture: whatever raw events
\* arrive between enabling and disabling capture mode, the pointer position
\* after disabling is the one at the moment capture was enabled.
C15_PointerFrozenDuringCapture ==
    /\ inp.cam_mode => iop.at_enable = Some(inp.pointer_pos)
    /\ (iop.name = "mouse_cam_mode" /\ ~iop.enable /\ iop.pre.cam_mode)
         => iop.at_enable = Some(inp.pointer_pos)

C15_DisabledAfterMotion ==
    /\ iop.name = "mouse_cam_mode" /\ ~iop.enable /\ iop.pre.cam_mode
    /\ ~inp.cam_mode
    /\ iop.moved
    /\ inp.pointer_pos = <<1, 1>>

\* C16: mouse_cam_mode(true) hides and confines the cursor, mouse_cam_mode(false)
\* releases it, shows it and puts it at the pointer position recorded when
\* capture was enabled; after every call that returns the flag is the value
\* last asked for, and the cursor is hidden and confined iff the flag is set.
C16_CursorFollowsCaptureFlag ==
    crash = "none"
    => /\ inp.cam_mode = iop.enable
       /\ inp.cam_mode => (~cursor.visible /\ cursor.grab = "Confined")
       /\ ~inp.cam_mode => (cursor.visible /\ cursor.grab = "None")
       /\ (iop.name = "mouse_cam_mode" /\ ~iop.enable)
            => /\ cursor.set_position = Some(inp.pointer_pos)
               /\ iop.pre.cam_mode => cursor.set_position = iop.at_enable

C16_CursorRestored ==
    /\ crash = "none"
    /\ iop.name = "mouse_cam_mode" /\ ~iop.enable /\ iop.pre.cam_mode
    /\ iop.moved
    /\ cursor = [visible |-> TRUE, grab |-> "None", set_position |-> Some(<<2, 1>>)]

IsKeyboardStep == gru_ui /\ iop.name = "event" /\ iop.raw.kind = "KeyboardInput"
InTable(physical_key) == physical_key[1] = "Code" /\ physical_key[2] \in DOMAIN KeyTable
KeyEvents(events) == SelectSeq(events, LAMBDA e : e.kind = "Key")
CharEvents(events) == SelectSeq(events, LAMBDA e : e.kind = "Char")

\* C17 as stated: a keyboard event whose code is in the table yields exactly
\* one key event (mapped key, pressed as the raw state); a keyboard event
\* whose code is not in the table yields no event at all.
C17_UnmappedKeyYieldsNothing ==
    IsKeyboardStep
    => /\ InTable(iop.raw.physical_key)
            => KeyEvents(Pushed) = <<Key(KeyTable[iop.raw.physical_key[2]],
                                         iop.raw.state = "Pressed")>>
       /\ ~InTable(iop.raw.physical_key) => Pushed = <<>>

\* C17 (amended): a keyboard event whose code is in the table yields exactly
\* one key event (mapped key, pressed as the raw state), on press and on
\* release; one whose code is not in the table yields no key event and no
\* error, but still its character event when it carries text and its
\* physical key is identified.
C17_OneKeyEventPerMappedCode ==
    IsKeyboardStep
    => /\ IsPrefix(iop.pre.events, inp.events)
       /\ crash = "none"
       /\ InTable(iop.raw.physical_key)
            => KeyEvents(Pushed) = <<Key(KeyTable[iop.raw.physical_key[2]],
                                         iop.raw.state = "Pressed")>>
       /\ ~InTable(iop.raw.physical_key)
            => /\ KeyEvents(Pushed) = <<>>
               /\ Pushed = IF iop.raw.physical_key[1] = "Code" /\ iop.raw.text # None
                           THEN <<Char(Head(iop.raw.text[1]))>> ELSE <<>>

C17_UnmappedKeyWithText ==
    /\ IsKeyboardStep
    /\ iop.raw.physical_key = Code("Comma")
    /\ iop.raw.state = "Released"
    /\ Pushed = <<Char("^")>>

\* C18: a keyboard event carrying text yields exactly one character event
\* (the first code point of the text) whether or not its key code is
\* identified or mapped, one without text yields none, and a key event of
\* the same keystroke is queued before the character event.
C18_CharIndependentOfKey ==
    IsKeyboardStep
    => /\ iop.raw.text # None => CharEvents(Pushed) = <<Char(Head(iop.raw.text[1]))>>
       /\ iop.raw.text = None => CharEvents(Pushed) = <<>>
       /\ (KeyEvents(Pushed) # <<>> /\ CharEvents(Pushed) # <<>>)
            => Pushed = KeyEvents(Pushed) \o CharEvents(Pushed)

C18_TextOfUnidentifiedKeyDropped ==
    /\ IsKeyboardStep
    /\ iop.raw.physical_key = Unidentified
    /\ iop.raw.text = Some(<<"^", "a">>)
    /\ Pushed = <<>>

(***************************************************************************)
(* Surface format selection: Graphics::init picks the surface and view      *)
(* formats from the adapter's capabilities, Graphics::configure builds the  *)
(* surface configuration from them.                                        *)
(***************************************************************************)
TextureFormats ==
    {"Rgba8Unorm", "Rgba8UnormSrgb", "Bgra8Unorm", "Bgra8UnormSrgb", "Rgba16Float"}

\* wgpu::TextureFormat::is_srgb
is_srgb(f) == f \in {"Rgba8UnormSrgb", "Bgra8UnormSrgb"}

\* wgpu::TextureFormat::add_srgb_suffix: formats without an sRGB variant stay
add_srgb_suffix(f) ==
    CASE f = "Rgba8Unorm" -> "Rgba8UnormSrgb"
      [] f = "Bgra8Unorm" -> "Bgra8UnormSrgb"
      [] OTHER -> f

\* formats.iter().copied().filter(|f| f.is_srgb()).next()
RECURSIVE first_srgb(_)
first_srgb(formats) ==
    IF formats = <<>> THEN None
    ELSE IF is_srgb(Head(formats)) THEN Some(Head(formats))
    ELSE first_srgb(Tail(formats))

\* a selection that takes the head of the list whatever it is
select_surface_format_head(formats) ==
    IF formats = <<>> THEN [crash |-> "IndexOutOfBounds", format |-> "-"]
    ELSE [crash |-> "none", format |-> formats[1]]

\* Graphics::init: the surface format; formats[0] of an empty list panics
select_surface_format(formats) ==
    LET found == first_srgb(formats)
    IN IF found # None THEN [crash |-> "none", format |-> found[1]]
       ELSE IF formats = <<>> THEN [crash |-> "IndexOutOfBounds", format |-> "-"]
       ELSE [crash |-> "none", format |-> formats[1]]

\* Graphics::configure: the SurfaceConfiguration it hands to Surface::configure
surface_conf(surface_format, view_format, width, height) ==
    [format |-> surface_format, width |-> width, height |-> height,
     view_formats |-> IF surface_format = view_format THEN <<>> ELSE <<view_format>>]

FormatLists == UNION {[1..n -> TextureFormats] : n \in 0..MaxFormats}

FInit ==
    /\ GIdle /\ IIdle /\ LInit /\ LIdle /\ SIdle /\ RIdle
    /\ target = "native" /\ gru_ui = FALSE /\ handler = AppHandler_new("init_a")
    /\ \E formats \in FormatLists :
         fsel = [pc |-> "caps", formats |-> formats, surface_format |-> "-",
                 view_format |-> "-", config |-> None, crash |-> "none"]

FSelect ==
    /\ fsel.pc = "caps"
    /\ LET r == select_surface_format(fsel.formats)
       IN fsel' = IF r.crash # "none"
                  THEN [fsel EXCEPT !.pc = "panicked", !.crash = r.crash]
                  ELSE [fsel EXCEPT !.pc = "selected", !.surface_format = r.format,
                                    !.view_format = add_srgb_suffix(r.format)]
    /\ UNCHANGED <<gvars, lvars, ivars, loader, store, rdata>>

FConfigure ==
    /\ fsel.pc = "selected"
    /\ \E size \in ResizedSizes :
         /\ size[1] > 0 /\ size[2] > 0 /\ Some(size) # gfx.surface_size
         /\ fsel' = [fsel EXCEPT !.config = Some(surface_conf(fsel.surface_format,
                                                             fsel.view_format,
                                                             size[1], size[2]))]
         /\ gfx' = configure(gfx, size[1], size[2])
    /\ UNCHANGED <<calls, op, lvars, ivars, loader, store, rdata>>

FNext == FSelect \/ FConfigure

SpecFormat == FInit /\ [][FNext]_vars

SrgbPositions == {i \in 1..Len(fsel.formats) : is_srgb(fsel.formats[i])}

\* C21: the surface format is the first sRGB format of the adapter's list
\* if it has one and the first format of the list otherwise; the view format
\* is the sRGB counterpart of the surface format; the configuration lists the
\* view format as an extra view format exactly when it differs from the
\* surface format.
C21_FormatSelection ==
    /\ fsel.pc = "selected"
         => /\ fsel.formats # <<>>
            /\ IF SrgbPositions # {}
               THEN \E i \in SrgbPositions :
                        /\ fsel.surface_format = fsel.formats[i]
                        /\ \A j \in SrgbPositions : i <= j
               ELSE fsel.surface_format = fsel.formats[1]
            /\ fsel.view_format \in
                 {fsel.surface_format,
                  IF fsel.surface_format = "Rgba8Unorm" THEN "Rgba8UnormSrgb"
                  ELSE "Bgra8UnormSrgb"}
            /\ fsel.surface_format \in {"Rgba8Unorm", "Bgra8Unorm"}
                 <=> fsel.view_format # fsel.surface_format
            /\ fsel.view_format # fsel.surface_format => is_srgb(fsel.view_format)
    /\ fsel.config # None
         => /\ fsel.config[1].format = fsel.surface_format
            /\ fsel.config[1].view_formats =
                 IF fsel.view_format # fsel.surface_format
                 THEN <<fsel.view_format>> ELSE <<>>

C21_SrgbNotFirstInList ==
    /\ fsel.formats = <<"Rgba16Float", "Bgra8Unorm", "Bgra8UnormSrgb">>
    /\ fsel.config # None
    /\ fsel.config[1].view_formats = <<>>

(***************************************************************************)
(* file.rs: a Loader, the Files it hands out and, on native, its worker     *)
(* thread; the dispatch thread and the worker interleave step by step.      *)
(***************************************************************************)
Paths == {"a.bin", "missing.bin"}
LoadOk(bytes) == [tag |-> "Ok", val |-> bytes]
LoadErr(msg) == [tag |-> "Err", val |-> msg]

\* std::fs::read(path).map_err(..) on a disk that holds a.bin only
fs_read(path) == IF path = "a.bin" THEN LoadOk("bytes of a.bin") ELSE LoadErr("NotFound")

\* what the server answers to GET path: status and response
http_status(path) == IF path = "a.bin" THEN 200 ELSE 404

\* Loader::new: the request channel is empty and the worker waits on it
Loader_new ==
    [queue |-> <<>>, worker |-> [state |-> "idle", cur |-> 0, data |-> None],
     files |-> [f \in FileIds |-> NoFile], crash |-> "none"]

\* Loader::load on native: a bounded(1) channel whose sender goes to the worker
load_native(l, f, path) ==
    IF l.worker.state = "panicked"
    THEN [l EXCEPT !.crash = "SendError"]
    ELSE [l EXCEPT !.queue = Append(@, f),
                   !.files[f] = [NoFile EXCEPT !.state = "live", !.path = path,
                                               !.sender = "queued"]]

\* Loader::load on wasm32: an asynchronous XmlHttpRequest and the flag false
load_wasm(l, f, path) ==
    [l EXCEPT !.files[f] = [NoFile EXCEPT !.state = "live", !.path = path,
                                          !.ready_state = 1]]

\* File::query on native: try_recv on the File's channel
query_native(file) ==
    IF file.chan # None
    THEN [file |-> [file EXCEPT !.chan = None], ret |-> Some(file.chan[1])]
    ELSE IF file.sender = "dropped"
         THEN [file |-> file, ret |-> Some(LoadErr("Loader thread cancelled"))]
         ELSE [file |-> file, ret |-> None]

\* File::query on wasm32: the request's ready state and the delivered flag
query_wasm(file) ==
    IF file.flag \/ file.ready_state # 4
    THEN [file |-> file, ret |-> None]
    ELSE [file |-> [file EXCEPT !.flag = TRUE],
          ret |-> IF file.status = 200
                  THEN Some(LoadOk("bytes of " \o file.path))
                  ELSE Some(LoadErr("Loading Status not OK"))]

\* the worker's loop: takes the next request and reads the file
worker_take(l) ==
    LET f == Head(l.queue)
    IN [l EXCEPT !.queue = Tail(@),
                 !.worker = [state |-> "sending", cur |-> f,
                             data |-> Some(fs_read(l.files[f].path))],
                 !.files[f].sender = "worker"]

\* the worker's data_send.send(data).unwrap(): a dropped File makes it panic,
\* which drops the request channel and every sender still queued in it
worker_send(l) ==
    LET f == l.worker.cur
    IN IF l.files[f].state = "live"
       THEN [l EXCEPT !.files[f].chan = l.worker.data, !.worker.state = "sent"]
       ELSE [l EXCEPT !.worker = [state |-> "panicked", cur |-> 0, data |-> None],
                      !.queue = <<>>,
                      !.files = [g \in FileIds |->
                                   IF g = f \/ \E i \in 1..Len(l.queue) : l.queue[i] = g
                                   THEN [l.files[g] EXCEPT !.sender = "dropped"]
                                   ELSE l.files[g]]]

\* the end of the loop body: data_send goes out of scope
worker_drop_sender(l) ==
    [l EXCEPT !.files[l.worker.cur].sender = "dropped",
              !.worker = [state |-> "idle", cur |-> 0, data |-> None]]

LoaderInit ==
    /\ GIdle /\ IIdle /\ LInit /\ FIdle /\ SIdle /\ RIdle
    /\ gru_ui = FALSE /\ handler = AppHandler_new("init_a")
    /\ loader = Loader_new

LOthers == <<gvars, lvars, ivars, fsel, store, rdata>>

LLoad ==
    /\ loader.crash = "none"
    /\ \E f \in FileIds, path \in Paths :
         /\ loader.files[f].state = "none"
         /\ \A g \in FileIds : g < f => loader.files[g].state # "none"
         /\ loader' = IF target = "native" THEN load_native(loader, f, path)
                      ELSE load_wasm(loader, f, path)
    /\ UNCHANGED LOthers

LQuery ==
    /\ loader.crash = "none"
    /\ \E f \in FileIds :
         /\ loader.files[f].state = "live"
         /\ Len(loader.files[f].polls) < MaxPolls
         /\ LET r == IF target = "native" THEN query_native(loader.files[f])
                     ELSE query_wasm(loader.files[f])
            IN loader' = [loader EXCEPT !.files[f] = [r.file EXCEPT !.polls = Append(@, r.ret)]]
    /\ UNCHANGED LOthers

\* the application drops a File
LDropFile ==
    /\ loader.crash = "none"
    /\ \E f \in FileIds :
         /\ loader.files[f].state = "live"
         /\ loader' = [loader EXCEPT !.files[f].state = "dropped", !.files[f].chan = None]
    /\ UNCHANGED LOthers

LWorkerTake ==
    /\ target = "native" /\ loader.worker.state = "idle" /\ loader.queue # <<>>
    /\ loader' = worker_take(loader)
    /\ UNCHANGED LOthers

LWorkerSend ==
    /\ target = "native" /\ loader.worker.state = "sending"
    /\ loader' = worker_send(loader)
    /\ UNCHANGED LOthers

LWorkerDropSender ==
    /\ target = "native" /\ loader.worker.state = "sent"
    /\ loader' = worker_drop_sender(loader)
    /\ UNCHANGED LOthers

\* the browser completes a request
LRequestDone ==
    /\ target = "wasm32"
    /\ \E f \in FileIds :
         /\ loader.files[f].state # "none" /\ loader.files[f].ready_state = 1
         /\ loader' = [loader EXCEPT !.files[f].ready_state = 4,
                                     !.files[f].status = http_status(loader.files[f].path)]
    /\ UNCHANGED LOthers

LoaderNext ==
    \/ LLoad
    \/ LQuery
    \/ LDropFile
    \/ LWorkerTake
    \/ LWorkerSend
    \/ LWorkerDropSender
    \/ LRequestDone

SpecLoader == LoaderInit /\ [][LoaderNext]_vars

(***************************************************************************)
(* Properties of the loader.                                               *)
(***************************************************************************)
\* the outcome of the load a File was created for
OwnResult(file) ==
    IF file.path = "a.bin" THEN LoadOk("bytes of a.bin")
    ELSE IF target = "native" THEN LoadErr("NotFound") ELSE LoadErr("Loading Status not OK")

\* whether the load of a File has completed
Completed(file) ==
    IF target = "native" THEN file.chan # None \/ file.sender = "dropped"
    ELSE file.ready_state = 4

Delivered(polls) == {i \in 1..Len(polls) : polls[i] # None}

\* C27: polling delivers the outcome exactly once: the polls of a File are
\* None while the load is pending, the load's own result on the first poll
\* after completion and None on every later poll, on native as on wasm32.
C27_OutcomeDeliveredOnce ==
    \A f \in FileIds :
        LET file == loader.files[f]
        IN /\ \A i \in Delivered(file.polls) :
                 /\ file.polls[i] = Some(OwnResult(file))
                 /\ \A j \in Delivered(file.polls) : j = i
           /\ (file.state = "live" /\ Completed(file) /\ file.polls # <<>>
                 /\ file.polls[Len(file.polls)] = None)
                => Delivered(file.polls) # {}

C27_SecondPollReportsCancelled ==
    /\ target = "native"
    /\ loader.worker.state = "idle"
    /\ loader.files[1].polls = <<None, Some(LoadOk("bytes of a.bin")),
                                 Some(LoadErr("Loader thread cancelled"))>>

\* C28: load requests are independent: a File dropped before its load has
\* completed does not keep later Loader::load calls from being accepted, and
\* the first outcome a File yields is the result of its own request.
C28_LoadsIndependent ==
    /\ loader.crash = "none"
    /\ \A f \in FileIds :
         LET file == loader.files[f]
         IN \A i \in Delivered(file.polls) :
                (\A j \in Delivered(file.polls) : i <= j)
                  => file.polls[i] = Some(OwnResult(file))

C28_LoadRefusedAfterDrop ==
    /\ target = "native"
    /\ loader.crash = "SendError"
    /\ loader.files[1].state = "dropped"
    /\ loader.files[1].polls = <<>>
    /\ loader.files[2].state = "none"

(***************************************************************************)
(* storage.rs: a Storage is loaded, used and dropped, again and again. On   *)
(* native it is a map written to CACHE.gru on drop; on wasm32 it is the     *)
(* browser's local storage. Strings are sequences of bytes.                *)
(***************************************************************************)
StoreKeys == {<<1>>, <<1, 2>>}
StoreValues == {<<>>, <<7>>}

\* AHashMap::insert / AHashMap::remove
map_insert(m, k, v) == [x \in DOMAIN m \cup {k} |-> IF x = k THEN v ELSE m[x]]
map_remove(m, k) == [x \in DOMAIN m \ {k} |-> m[x]]

\* bincode::serialize of a String: its length, then its bytes
ser_string(str) == <<Len(str)>> \o str

\* bincode::serialize of the map: the number of entries, then each entry's
\* key and value, in the map's iteration order
RECURSIVE ser_entries(_, _)
ser_entries(m, order) ==
    IF order = <<>> THEN <<>>
    ELSE ser_string(Head(order)) \o ser_string(m[Head(order)]) \o ser_entries(m, Tail(order))
serialize(m, order) == <<Len(order)>> \o ser_entries(m, order)

\* the orders in which an AHashMap may iterate over its keys
Orders(m) ==
    {o \in [1..Cardinality(DOMAIN m) -> DOMAIN m] :
        \A i, j \in 1..Cardinality(DOMAIN m) : i # j => o[i] # o[j]}

\* bincode::deserialize of a String at the head of bytes: the string and the rest
de_string(bytes) ==
    [str |-> SubSeq(bytes, 2, 1 + bytes[1]),
     rest |-> SubSeq(bytes, 2 + bytes[1], Len(bytes))]

\* bincode::deserialize of n entries, inserted one by one
RECURSIVE de_entries(_, _, _)
de_entries(n, bytes, m) ==
    IF n = 0 THEN m
    ELSE LET k == de_string(bytes)
             v == de_string(k.rest)
         IN de_entries(n - 1, v.rest, map_insert(m, k.str, v.str))
deserialize(bytes) == de_entries(bytes[1], Tail(bytes), EmptyMap)

\* web_sys::Storage: items in the order they were first set
ls_index(ls, k) == {i \in 1..Len(ls) : ls[i][1] = k}
ls_set_item(ls, k, v) ==
    IF ls_index(ls, k) = {} THEN Append(ls, <<k, v>>)
    ELSE [i \in 1..Len(ls) |-> IF ls[i][1] = k THEN <<k, v>> ELSE ls[i]]
ls_remove_item(ls, k) == SelectSeq(ls, LAMBDA e : e[1] # k)
ls_get_item(ls, k) ==
    IF ls_index(ls, k) = {} THEN None ELSE Some(ls[CHOOSE i \in ls_index(ls, k) : TRUE][2])

\* Storage::load
Storage_load(st, tgt) ==
    IF tgt = "wasm32" THEN [st EXCEPT !.pc = "open"]
    ELSE [st EXCEPT !.pc = "open",
                    !.data = IF st.disk = None THEN EmptyMap ELSE deserialize(st.disk[1])]

\* a Storage::set that stores an empty string where it should remove the key
Storage_set_blanks(st, tgt, key, value) ==
    LET v == IF value = None THEN <<>> ELSE value[1]
    IN IF tgt = "wasm32"
       THEN [st EXCEPT !.local_storage = ls_set_item(@, key, v)]
       ELSE [st EXCEPT !.data = map_insert(@, key, v)]

\* Storage::set
Storage_set(st, tgt, key, value) ==
    IF tgt = "wasm32"
    THEN [st EXCEPT !.local_storage = IF value # None THEN ls_set_item(@, key, value[1])
                                      ELSE ls_remove_item(@, key)]
    ELSE [st EXCEPT !.data = IF value # None THEN map_insert(@, key, value[1])
                             ELSE map_remove(@, key)]

\* Storage::get
Storage_get(st, tgt, key) ==
    IF tgt = "wasm32" THEN ls_get_item(st.local_storage, key)
    ELSE IF key \in DOMAIN st.data THEN Some(st.data[key]) ELSE None

\* Storage::clear
Storage_clear(st, tgt) ==
    IF tgt = "wasm32" THEN [st EXCEPT !.local_storage = <<>>]
    ELSE [st EXCEPT !.data = EmptyMap]

\* Storage::keys, as the set of the keys it lists
Storage_keys(st, tgt) ==
    IF tgt = "wasm32" THEN {st.local_storage[i][1] : i \in 1..Len(st.local_storage)}
    ELSE DOMAIN st.data

\* Drop for Storage (native only): write the serialized map; a failed write panics
Storage_drop(st, tgt, order, write) ==
    IF tgt = "wasm32" THEN [st EXCEPT !.pc = "dropped"]
    ELSE IF write # "Ok" THEN [st EXCEPT !.pc = "dropped", !.crash = "WriteFailed"]
    ELSE [st EXCEPT !.pc = "dropped", !.disk = Some(serialize(st.data, order)),
                    !.data = EmptyMap]

StoreInit ==
    /\ GIdle /\ IIdle /\ LInit /\ FIdle /\ LIdle /\ SIdle /\ RIdle
    /\ gru_ui = FALSE /\ handler = AppHandler_new("init_a")

SOthers == <<gvars, lvars, ivars, fsel, loader, rdata>>

SLoad ==
    /\ store.crash = "none" /\ store.pc \in {"unloaded", "dropped"}
    /\ store' = [Storage_load(store, target) EXCEPT
                   !.op = [name |-> "load", key |-> <<>>, ret |-> None]]
    /\ UNCHANGED SOthers

SSet ==
    /\ store.crash = "none" /\ store.pc = "open"
    /\ \E key \in StoreKeys, value \in {None} \cup {Some(v) : v \in StoreValues} :
         store' = [Storage_set(store, target, key, value) EXCEPT
                     !.expect = IF value # None THEN map_insert(@, key, value[1])
                                ELSE map_remove(@, key),
                     !.op = [name |-> "set", key |-> key, ret |-> value]]
    /\ UNCHANGED SOthers

SGet ==
    /\ store.crash = "none" /\ store.pc = "open"
    /\ \E key \in StoreKeys :
         store' = [store EXCEPT !.op = [name |-> "get", key |-> key,
                                        ret |-> Storage_get(store, target, key)]]
    /\ UNCHANGED SOthers

SClear ==
    /\ store.crash = "none" /\ store.pc = "open"
    /\ store' = [Storage_clear(store, target) EXCEPT
                   !.expect = EmptyMap,
                   !.op = [name |-> "clear", key |-> <<>>, ret |-> None]]
    /\ UNCHANGED SOthers

SDrop ==
    /\ store.crash = "none" /\ store.pc = "open"
    /\ \E order \in Orders(store.data), write \in {"Ok", "Err"} :
         store' = [Storage_drop(store, target, order, write) EXCEPT
                     !.op = [name |-> "drop", key |-> <<>>, ret |-> None]]
    /\ UNCHANGED SOthers

StoreNext == SLoad \/ SSet \/ SGet \/ SClear \/ SDrop

SpecStore == StoreInit /\ [][StoreNext]_vars

\* the key-value contents of the open store
Contents ==
    IF target = "wasm32"
    THEN [k \in Storage_keys(store, target) |-> ls_get_item(store.local_storage, k)[1]]
    ELSE store.data

\* C30: the store is a key-value map that round-trips through persistence:
\* get returns what the last set of that key stored (None after set(k, None)
\* or clear), keys lists exactly the keys that are set, and the contents
\* after a load are those the store had when it was last dropped (the empty
\* map when there is no cache file).
C30_StoreRoundTrips ==
    (store.crash = "none" /\ store.pc = "open")
    => /\ Contents = store.expect
       /\ Storage_keys(store, target) = DOMAIN store.expect
       /\ \A k \in StoreKeys :
            Storage_get(store, target, k)
              = IF k \in DOMAIN store.expect THEN Some(store.expect[k]) ELSE None
       /\ store.op.name = "get"
            => store.op.ret = IF store.op.key \in DOMAIN store.expect
                              THEN Some(store.expect[store.op.key]) ELSE None
       /\ (store.op.name = "set" /\ store.op.ret = None)
            => store.op.key \notin Storage_keys(store, target)
       /\ store.op.name = "clear" => Storage_keys(store, target) = {}

C30_ReloadedFromCacheFile ==
    /\ target = "native"
    /\ store.op.name = "load"
    /\ store.disk # None
    /\ store.data = (<<1>> :> <<>> @@ <<1, 2>> :> <<7>>)

(***************************************************************************)
(* ui_binding.rs: the vertex and index buffers of a RenderData through      *)
(* update and render. Sizes and lengths are in bytes, as wgpu counts them.  *)
(***************************************************************************)
\* RenderData::create_buffers: the sizes of the two buffers it creates
create_buffers(num_vertices, num_indices) ==
    [vertex_buf_size |-> num_vertices * SizeOfVertex,
     index_buf_size |-> num_indices * SizeOfU16]

\* RenderData::new: buffers for one vertex and one index, nothing recorded
RenderData_new ==
    [vertex_buf_size |-> create_buffers(1, 1).vertex_buf_size,
     index_buf_size |-> create_buffers(1, 1).index_buf_size,
     len_vertices |-> 0, len_indices |-> 0, num_indices |-> 0,
     op |-> "new", bound |-> None, crash |-> "none"]

\* outcomes of a Queue::write_buffer that does not fit: wgpu's validation
\* error ends the run, or is only reported and the call returns
WriteOutcomes == {"panic", "reported"}

\* RenderData::update, the buffer part; frame holds the numbers of vertices
\* and indices of the painted frame and whether it is new
update(r, surface_size, frame, overrun) ==
    IF surface_size = None \/ ~frame.new THEN [r EXCEPT !.op = "update"]
    ELSE LET grow == frame.vertices > r.vertex_buf_size \/ frame.indices > r.index_buf_size
             b == IF grow THEN create_buffers(frame.vertices, frame.indices)
                  ELSE [vertex_buf_size |-> r.vertex_buf_size,
                        index_buf_size |-> r.index_buf_size]
             vertex_bytes == frame.vertices * SizeOfVertex
             index_bytes == frame.indices * SizeOfU16
             r1 == [r EXCEPT !.op = "update", !.vertex_buf_size = b.vertex_buf_size,
                             !.index_buf_size = b.index_buf_size]
         IN IF (vertex_bytes > b.vertex_buf_size \/ index_bytes > b.index_buf_size)
               /\ overrun = "panic"
            THEN [r1 EXCEPT !.crash = "ValidationError"]
            ELSE [r1 EXCEPT !.len_vertices = vertex_bytes, !.len_indices = index_bytes,
                            !.num_indices = frame.indices]

\* RenderData::render: the slices it binds, if it draws
render(r) ==
    IF r.num_indices > 0
    THEN [r EXCEPT !.op = "render",
                   !.bound = Some([vertices |-> r.len_vertices, indices |-> r.len_indices])]
    ELSE [r EXCEPT !.op = "render", !.bound = None]

Frames == [vertices : 0..MaxElements, indices : 0..MaxElements, new : BOOLEAN]

RenderInit ==
    /\ GIdle /\ IIdle /\ LInit /\ FIdle /\ LIdle /\ SIdle
    /\ target = "native" /\ gru_ui = TRUE /\ handler = AppHandler_new("init_a")
    /\ rdata = RenderData_new

ROthers == <<gvars, lvars, ivars, fsel, loader, store>>

RUpdate ==
    /\ rdata.crash = "none"
    /\ \E surface_size \in {None, Some(<<2, 3>>)}, frame \in Frames, overrun \in WriteOutcomes :
         rdata' = update(rdata, surface_size, frame, overrun)
    /\ UNCHANGED ROthers

RRender ==
    /\ rdata.crash = "none"
    /\ rdata' = render(rdata)
    /\ UNCHANGED ROthers

RenderNext == RUpdate \/ RRender

SpecRender == RenderInit /\ [][RenderNext]_vars

\* C29: after every update each buffer is at least as large as the byte
\* length recorded for it, no write goes beyond a buffer, and render never
\* binds a slice that is longer than its buffer.
C29_BuffersHoldRecordedLengths ==
    /\ rdata.crash = "none"
    /\ rdata.len_vertices <= rdata.vertex_buf_size
    /\ rdata.len_indices <= rdata.index_buf_size
    /\ (rdata.op = "render" /\ rdata.bound # None)
         => /\ rdata.bound[1].vertices <= rdata.vertex_buf_size
            /\ rdata.bound[1].indices <= rdata.index_buf_size

C29_SliceBeyondBuffer ==
    /\ rdata.op = "render"
    /\ rdata.vertex_buf_size = 108 /\ rdata.index_buf_size = 6
    /\ rdata.bound = Some([vertices |-> 144, indices |-> 8])

(***************************************************************************)
(* Further properties of Graphics.                                         *)
(***************************************************************************)
\* C23: the applied surface size is absent or a pair of strictly positive
\* dimensions, the parameters of the most recent underlying reconfiguration;
\* the underlying reconfiguration is never invoked with a zero dimension,
\* and an applied size, once there, never becomes absent again.
C23_AppliedSizePositiveAndKept ==
    /\ [](/\ gfx.surface_size = gfx.applied
          /\ gfx.surface_size # None => Positive(gfx.surface_size[1])
          /\ gfx.surface_size = None <=> gfx.reconfigs = 0)
    /\ [][/\ gfx.surface_size # None => gfx'.surface_size # None
          /\ gfx'.reconfigs # gfx.reconfigs
               => /\ gfx'.reconfigs = gfx.reconfigs + 1
                  /\ gfx'.applied # None /\ Positive(gfx'.applied[1])]_vars

C23_ZeroHeightAfterApplied ==
    /\ op.name = "configure"
    /\ LastCall = <<800, 0>>
    /\ gfx.applied = Some(<<800, 300>>)
    /\ gfx.reconfigs = 2

(***************************************************************************)
(* Further properties of the lifecycle.                                    *)
(***************************************************************************)
Occurrences(what) == {i \in 1..Len(last.effects) : last.effects[i] = what}

DroppedEvents == {"device_event", "window_input", "resized", "redraw"}
C25_EventsWithoutContextDropped ==
    [][(handler.ctx = None /\ last'.event \in DroppedEvents)
         => /\ ~last'.handled
            /\ last'.effects = <<>>
            /\ handler' = handler
            /\ hist' = hist
            /\ proxy_queue' = proxy_queue
            /\ boot' = boot
            /\ loop' = loop
            /\ crash' = crash]_vars

\* a resize was dropped while the built context, configured for another size,
\* waited in the proxy's queue
C25_ResizeDroppedWhilePending ==
    /\ last.event = "resized" /\ ~last.handled
    /\ handler.ctx = None
    /\ proxy_queue # <<>>
    /\ proxy_queue[1].graphics.surface_size # Some(<<Max(window.size[1], 1), Max(window.size[2], 1)>>)


(***************************************************************************)
(* The run under a fair dispatcher: the loop polls, the bootstrap future    *)
(* resumes, and a sent init-complete event, a requested redraw and a        *)
(* requested exit are delivered.  Input and resizes come from the user and  *)
(* need not happen.                                                         *)
(***************************************************************************)
SpecLive ==
    /\ Init /\ [][Next]_vars
    /\ WF_vars(NewEvents)
    /\ WF_vars(FutureAdapter)
    /\ WF_vars(FutureDevice)
    /\ WF_vars(UserEvent)
    /\ WF_vars(RedrawRequested)
    /\ WF_vars(Exiting)

\* C24 as stated: whenever the lifecycle is Running and the application has
\* not asked to exit, a frame callback follows, whichever of the initial
\* redraw and the init-complete event was handled first
Running == handler.ctx # None /\ handler.app.tag = "App" /\ loop = "running" /\ crash = "none"
FrameRan == last.event = "redraw" /\ last.handled
C24_FramesKeepComing == Running ~> (FrameRan \/ ~Running)

\* the initial redraw was handled before the context was installed: the
\* lifecycle is Running, no frame has run and no redraw is pending
C24_InitialRedrawLost ==
    /\ Running
    /\ ~hist.frames
    /\ ~window.redraw
    /\ last.event = "user_event"
    /\ hist.shown = 1

(***************************************************************************)
(* The handler under a platform that still delivers device and window       *)
(* events after the loop has called exiting.                                *)
(***************************************************************************)
Exited == crash = "none" /\ loop = "exited"

LateDeviceEvent ==
    /\ Exited
    /\ \E raw \in DeviceInputs : Apply(device_event(World, gru_ui, raw), "device_event")

LateWindowInput ==
    /\ Exited
    /\ \E raw \in WindowInputs :
         Apply(window_event(World, gru_ui, raw, CHOOSE c \in FrameChoices : TRUE),
               "window_input")

LateResized ==
    /\ Exited
    /\ \E size \in ResizedSizes :
         Apply(window_event([World EXCEPT !.window.size = size], gru_ui,
                            [kind |-> "Resized", arg |-> size],
                            CHOOSE c \in FrameChoices : TRUE),
               "resized")

LateRedrawRequested ==
    /\ Exited
    /\ \E choice \in FrameChoices :
         Apply(window_event([World EXCEPT !.window.redraw = FALSE], gru_ui,
                            [kind |-> "RedrawRequested", arg |-> Zero], choice),
               "redraw")

NextLate ==
    \/ Next
    \/ LateDeviceEvent
    \/ LateWindowInput
    \/ LateResized
    \/ LateRedrawRequested

SpecLate == Init /\ [][NextLate]_vars

\* C26: once exiting has called App::deinit, the context is absent and the
\* application state is Deinit in every later state, and every later device,
\* window or redraw event runs no callback (init, frame, deinit), queues no
\* input and configures no surface
TornDown == hist.deinit_calls > 0
C26_NothingAfterTeardown ==
    /\ [](TornDown => handler = [ctx |-> None, app |-> AppState_Deinit])
    /\ [][TornDown => /\ last'.event \in DroppedEvents
                      /\ ~last'.handled
                      /\ last'.effects = <<>>
                      /\ hist' = hist
                      /\ handler' = handler
                      /\ loop' = loop
                      /\ crash' = crash]_vars

\* a resize was delivered after teardown
C26_LateResize ==
    /\ TornDown /\ loop = "exited"
    /\ last.event = "resized"
    /\ window.size = <<0, 3>>

====
